---- MODULE Spec2Model ----
(***************************************************************************)
(* Model of the document ingestion and hybrid retrieval engine:            *)
(*   app/services/retrieval.py   (bm25_search, vector_search,              *)
(*                                _apply_filter, hybrid_search)            *)
(*   app/services/vectorstore.py (clear_collection, add_chunks)            *)
(*   app/services/embeddings.py  (embed_chunks)                            *)
(*   app/processing/*.py         (loader, pipeline, chunker)               *)
(*   app/main.py, index.py       (run_indexing, the index script)          *)
(*                                                                         *)
(* Texts are sequences of one-character strings.  Scores are exact         *)
(* fixed-point numbers: a normalized score s stands for s / ONE, a weight  *)
(* w for w / WD and a final score f for f / (ONE * WD).                    *)
(***************************************************************************)
EXTENDS Integers, Sequences, FiniteSets, TLC

VARIABLES
    \* ---- one call of hybrid_search (retrieval.py) ----
    spc,        \* "init" | "called" : position of the search call
    dist,       \* doc -> distance the vector store reports for the query
    bscore,     \* doc -> raw BM25 score of the query
    top_k,      \* argument top_k
    vw,         \* argument vector_weight, in units of 1/WD
    filter,     \* argument filter: sequence of <<key, value>> items (<<>> = None)
    results,    \* the returned list
    \* ---- the data directory ----
    disk,       \* file -> "ok" | "bad" (unreadable) | "absent" | "nodir" (no data directory)
    epoch,      \* revision of the documents on disk
    \* ---- the vector store server: the collection "react_docs" ----
    cexists,    \* the collection exists
    cdocs,      \* its records, in insertion order
    \* ---- the API server process ----
    server,     \* "down" | "up" | "import_error"
    vs_coll,    \* vectorstore.collection of the server: "none" | "live" | "dead"
    rt_coll,    \* retrieval.collection, bound when retrieval is imported
    bm25_docs,  \* all_ids / all_documents, loaded when retrieval is imported
    ingested,   \* an ingestion of this server process has completed; store untouched since
    lastq,      \* what the last hybrid_search of the server read
    \* ---- ingestion runs (run_indexing requests and runs of index.py) ----
    rkind,      \* run -> "http" | "script"
    rpc,        \* run -> position in clear -> process -> embed -> add
    rcoll,      \* run -> vectorstore.collection of a script's own process
    rchunks,    \* run -> the local variable chunks
    rresp,      \* run -> "none" | "ok" | "error" (returned) | "raised"
    rfail,      \* run -> the step that failed, "none" if none did
    rstored,    \* run -> number of records the run has written to the store
    \* ---- one call of the chunker (chunker.py) ----
    cpc,        \* "init" | "done"
    cfun,       \* the function called: "recursive_chunk" | "chunk_document"
    text,       \* argument text
    chunk_size, \* argument chunk_size
    chunk_overlap, \* argument chunk_overlap
    final_chunks, \* the returned list of chunks
    raised,     \* the call raised ValueError instead of returning
    \* ---- one document in the loop of process_all_documents (pipeline.py) ----
    ppc,        \* "init" | "done"
    raw,        \* doc["content"], the file as read
    source,     \* doc["source"], the path of the file
    cleaned,    \* the local variable cleaned
    metadata,   \* the local variable metadata: a dict, as a sequence of <<key, value>>
    doc_chunks, \* chunks_with_metadata: a list of dicts
    stored      \* the ids, documents and metadatas add_chunks hands to collection.add

searchVars == <<spc, dist, bscore, top_k, vw, filter, results>>
diskVars == <<disk, epoch>>
storeVars == <<cexists, cdocs>>
serverVars == <<server, vs_coll, rt_coll, bm25_docs, ingested, lastq>>
runVars == <<rkind, rpc, rcoll, rchunks, rresp, rfail, rstored>>
procVars == <<diskVars, storeVars, serverVars, runVars>>
chunkVars == <<cpc, cfun, text, chunk_size, chunk_overlap, final_chunks, raised>>
pipeVars == <<ppc, raw, source, cleaned, metadata, doc_chunks, stored>>
vars == <<searchVars, procVars, chunkVars, pipeVars>>

-----------------------------------------------------------------------------
(* Bounds *)
MaxVal == 2     \* distances and raw BM25 scores range over 0..MaxVal
MaxTopK == 2    \* top_k ranges over 1..MaxTopK
MaxEpoch == 2   \* the documents on disk are revised at most MaxEpoch - 1 times
MaxLen == 4     \* a chunked text has at most MaxLen characters
MaxSize == 3    \* chunk_size ranges over 0..MaxSize
MaxOverlap == 1 \* chunk_overlap ranges over 0..MaxOverlap
MaxPieces == 4  \* a document is built from at most MaxPieces pieces
MaxBudget == 2  \* a document under a header is split with a budget of at most MaxBudget
MaxLines == 3   \* a processed document has at most MaxLines lines below its frontmatter

WD == 2         \* denominator of the modelled weights: a weight w stands for w / WD

RECURSIVE Fact(_)
Fact(n) == IF n <= 1 THEN 1 ELSE n * Fact(n - 1)
\* 1.0 as a fixed-point number; every possible range 1..MaxVal divides it
ONE == Fact(MaxVal)

Vals == 0..MaxVal
\* vector_weight in steps of 1/WD, from below 0 to above 1
Weights == -1..(WD + 1)

-----------------------------------------------------------------------------
(* Strings *)
\* a text is a tuple of one-character strings
LowerChar(c) ==
    CASE c = "A" -> "a" [] c = "G" -> "g" [] c = "U" -> "u" [] c = "I" -> "i"
      [] c = "D" -> "d" [] c = "E" -> "e" [] c = "P" -> "p" [] c = "S" -> "s"
      [] OTHER -> c
\* str.lower()
lower(s) == [i \in 1..Len(s) |-> LowerChar(s[i])]
\* the Python test  a in b  on strings
Contains(b, a) ==
    \E i \in 0..(Len(b) - Len(a)) : \A j \in 1..Len(a) : b[i + j] = a[j]

\* s[:n] for n >= 0
Take(s, n) == SubSeq(s, 1, IF n < Len(s) THEN n ELSE Len(s))

-----------------------------------------------------------------------------
(* The corpus of a search: ids and metadata as stored in the collection *)
\* the metadatas of the stored chunks, in corpus order
Corpus ==
    << [category |-> <<"a", "p", "i">>, title |-> <<"U", "s", "e">>],
       [category |-> <<"G", "u", "i", "d", "e">>, title |-> <<"A", "p", "i">>],
       [title |-> <<"g", "u", "i", "d", "e", "s">>] >>
NumDocs == Len(Corpus)
Docs == 1..NumDocs
ChunkId(d) == d
Metadata(d) == Corpus[d]

\* dict.get(key, "")
MetaGet(m, key) == IF key \in DOMAIN m THEN m[key] ELSE <<>>

Filters ==
    { <<>>,
      << <<"category", <<"g", "u", "i", "d", "e">> >> >>,
      << <<"title", <<"P", "I">> >>, <<"category", <<>> >> >> }

-----------------------------------------------------------------------------
(* Sorting: Python's list.sort / sorted are stable, also with reverse=True *)
\* insert x behind every element whose key is >= x.key
RECURSIVE InsertDesc(_, _)
InsertDesc(s, x) ==
    IF s = <<>> THEN <<x>>
    ELSE IF Head(s).key >= x.key THEN <<Head(s)>> \o InsertDesc(Tail(s), x)
    ELSE <<x>> \o s

RECURSIVE SortDesc(_)
SortDesc(s) ==
    IF s = <<>> THEN <<>>
    ELSE InsertDesc(SortDesc(SubSeq(s, 1, Len(s) - 1)), s[Len(s)])

\* insert x behind every element whose key is <= x.key
RECURSIVE InsertAsc(_, _)
InsertAsc(s, x) ==
    IF s = <<>> THEN <<x>>
    ELSE IF Head(s).key <= x.key THEN <<Head(s)>> \o InsertAsc(Tail(s), x)
    ELSE <<x>> \o s

RECURSIVE SortAsc(_)
SortAsc(s) ==
    IF s = <<>> THEN <<>>
    ELSE InsertAsc(SortAsc(SubSeq(s, 1, Len(s) - 1)), s[Len(s)])

Keyed(s, K) == [i \in 1..Len(s) |-> [key |-> K[i], val |-> s[i]]]
Vals_(s) == [i \in 1..Len(s) |-> s[i].val]

-----------------------------------------------------------------------------
(* retrieval.py *)

\* collection.query(n_results = k): the k nearest stored chunks, nearest first
vector_search(dists, k) ==
    LET all == [d \in 1..NumDocs |->
                  [id |-> ChunkId(d), metadata |-> Metadata(d), distance |-> dists[d]]]
    IN Take(Vals_(SortAsc(Keyed(all, [d \in 1..NumDocs |-> dists[d]]))), k)

\* mutant: the indices sorted ascending and the list turned round (equal scores come
\* out in reverse corpus order)
bm25_search_tiesReversed(scores, k) ==
    LET idx == [d \in 1..NumDocs |-> d]
        asc == Vals_(SortAsc(Keyed(idx, [d \in 1..NumDocs |-> scores[d]])))
        top_indices == Take([i \in 1..Len(asc) |-> asc[Len(asc) + 1 - i]], k)
    IN [i \in 1..Len(top_indices) |->
          [id |-> ChunkId(top_indices[i]), metadata |-> Metadata(top_indices[i]),
           score |-> scores[top_indices[i]]]]

\* sorted(range(len(scores)), key = scores[i], reverse = True)[:top_k]
bm25_search(scores, k) ==
    LET idx == [d \in 1..NumDocs |-> d]
        top_indices == Take(Vals_(SortDesc(Keyed(idx, [d \in 1..NumDocs |-> scores[d]]))), k)
    IN [i \in 1..Len(top_indices) |->
          [id |-> ChunkId(top_indices[i]), metadata |-> Metadata(top_indices[i]),
           score |-> scores[top_indices[i]]]]

\* the inner loop of _apply_filter: every filter item matches r
FilterMatch(r, f) ==
    \A i \in 1..Len(f) :
        Contains(lower(MetaGet(r.metadata, f[i][1])), lower(f[i][2]))

_apply_filter(rs, f) == SelectSeq(rs, LAMBDA r : FilterMatch(r, f))

SeqMax(s) == CHOOSE m \in {s[i] : i \in 1..Len(s)} : \A i \in 1..Len(s) : s[i] <= m
SeqMin(s) == CHOOSE m \in {s[i] : i \in 1..Len(s)} : \A i \in 1..Len(s) : s[i] >= m

\* max - min if max != min else 1
Range(s) == IF SeqMax(s) # SeqMin(s) THEN SeqMax(s) - SeqMin(s) ELSE 1

\* mutant: the distance is normalized but not turned into a score (no 1 - ...)
NormVector_notInverted(d, ds) == ((d - SeqMin(ds)) * ONE) \div Range(ds)

\* 1 - (distance - min_dist) / dist_range
NormVector(d, ds) == ONE - ((d - SeqMin(ds)) * ONE) \div Range(ds)
\* mutant: the BM25 score normalized like a distance (1 - ...)
NormBm25_inverted(x, xs) == ONE - ((x - SeqMin(xs)) * ONE) \div Range(xs)

\* (score - min_score) / score_range
NormBm25(x, xs) == ((x - SeqMin(xs)) * ONE) \div Range(xs)

\* position of id in the insertion-ordered dict cs, 0 if absent
DictPos(cs, id) ==
    IF \E i \in 1..Len(cs) : cs[i].id = id
    THEN CHOOSE i \in 1..Len(cs) : cs[i].id = id
    ELSE 0

\* combined_scores[r["id"]] = {..., "vector_score": v, "bm25_score": 0}
RECURSIVE MergeVector(_, _, _)
MergeVector(cs, vrs, ds) ==
    IF vrs = <<>> THEN cs
    ELSE LET r == Head(vrs)
             e == [id |-> r.id, metadata |-> r.metadata,
                   vector_score |-> NormVector(r.distance, ds), bm25_score |-> 0]
             p == DictPos(cs, r.id)
         IN MergeVector(IF p = 0 THEN Append(cs, e) ELSE [cs EXCEPT ![p] = e],
                        Tail(vrs), ds)

\* the BM25 loop: update bm25_score of a known id, else insert with vector_score 0
RECURSIVE MergeBm25(_, _, _)
MergeBm25(cs, brs, xs) ==
    IF brs = <<>> THEN cs
    ELSE LET r == Head(brs)
             n == NormBm25(r.score, xs)
             p == DictPos(cs, r.id)
         IN MergeBm25(IF p # 0 THEN [cs EXCEPT ![p].bm25_score = n]
                      ELSE Append(cs, [id |-> r.id, metadata |-> r.metadata,
                                       vector_score |-> 0, bm25_score |-> n]),
                      Tail(brs), xs)

\* combined_scores after both normalization loops
Combine(vrs, brs) ==
    LET ds == [i \in 1..Len(vrs) |-> vrs[i].distance]
        xs == [i \in 1..Len(brs) |-> brs[i].score]
        c1 == IF vrs # <<>> THEN MergeVector(<<>>, vrs, ds) ELSE <<>>
    IN IF brs # <<>> THEN MergeBm25(c1, brs, xs) ELSE c1

\* mutant: the BM25 signal weighted with vector_weight too
FinalScore_sameWeight(data, w) == data.vector_score * w + data.bm25_score * w

\* final_score = vector_score * vector_weight + bm25_score * (1 - vector_weight)
FinalScore(data, w) == data.vector_score * w + data.bm25_score * (WD - w)

Scored(cs, w) ==
    [i \in 1..Len(cs) |->
        [id |-> cs[i].id, metadata |-> cs[i].metadata, score |-> FinalScore(cs[i], w),
         vector_score |-> cs[i].vector_score, bm25_score |-> cs[i].bm25_score]]

Reverse(s) == [i \in 1..Len(s) |-> s[Len(s) + 1 - i]]
\* mutant: sort ascending, then reverse the list (equal scores come out reversed)
SortByScore_reversed(rs) ==
    Reverse(Vals_(SortAsc(Keyed(rs, [i \in 1..Len(rs) |-> rs[i].score]))))

\* results.sort(key = score, reverse = True)
SortByScore(rs) == Vals_(SortDesc(Keyed(rs, [i \in 1..Len(rs) |-> rs[i].score])))

\* the candidate lists after the optional filter
Candidates(rs, f) == IF f # <<>> THEN _apply_filter(rs, f) ELSE rs

\* mutant: the filter applied to the merged, scored list instead of to each candidate list
hybrid_search_lateFilter(dists, scores, k, w, f) ==
    LET merged == Scored(Combine(vector_search(dists, k * 2), bm25_search(scores, k * 2)), w)
    IN Take(SortByScore(Candidates(merged, f)), k)

hybrid_search(dists, scores, k, w, f) ==
    LET vector_results == Candidates(vector_search(dists, k * 2), f)
        bm25_results == Candidates(bm25_search(scores, k * 2), f)
    IN Take(SortByScore(Scored(Combine(vector_results, bm25_results), w)), k)

\* the local list results of hybrid_search after results.sort, before results[:top_k]
RankedResults(dists, scores, k, w, f) ==
    LET vector_results == Candidates(vector_search(dists, k * 2), f)
        bm25_results == Candidates(bm25_search(scores, k * 2), f)
    IN SortByScore(Scored(Combine(vector_results, bm25_results), w))

-----------------------------------------------------------------------------
(* chunker.py *)

NL == "\n"
SP == " "
Alphabet == {"a", ".", "#", SP, NL}
Whitespace == {SP, NL}

\* str.strip()
RECURSIVE lstrip(_)
lstrip(s) == IF s # <<>> /\ Head(s) \in Whitespace THEN lstrip(Tail(s)) ELSE s
RECURSIVE rstrip(_)
rstrip(s) ==
    IF s # <<>> /\ s[Len(s)] \in Whitespace THEN rstrip(SubSeq(s, 1, Len(s) - 1)) ELSE s
strip(s) == rstrip(lstrip(s))

\* str.startswith
StartsWith(s, p) == Len(s) >= Len(p) /\ SubSeq(s, 1, Len(p)) = p

\* str.split(sep): cut at every non-overlapping occurrence of sep, left to right
RECURSIVE SplitFrom(_, _, _)
SplitFrom(s, sep, cur) ==
    IF s = <<>> THEN <<cur>>
    ELSE IF StartsWith(s, sep)
         THEN <<cur>> \o SplitFrom(SubSeq(s, Len(sep) + 1, Len(s)), sep, <<>>)
         ELSE SplitFrom(Tail(s), sep, Append(cur, Head(s)))
Split(s, sep) == SplitFrom(s, sep, <<>>)

\* the slice s[i:i+n] of Python, i from 0, n >= 0
Slice(s, i, n) == SubSeq(s, i + 1, IF i + n < Len(s) THEN i + n ELSE Len(s))

separators == << <<NL, NL>>, <<NL>>, <<".", SP>>, <<SP>> >>

Returned(cs) == [raised |-> FALSE, chunks |-> cs]
\* range() with step 0 raises ValueError
Raised == [raised |-> TRUE, chunks |-> <<>>]

\* for i in range(0, len(text), step): chunks.append(text[i:i + size])
RECURSIVE Slices(_, _, _, _)
Slices(t, i, size, step) ==
    IF i >= Len(t) THEN <<>> ELSE <<Slice(t, i, size)>> \o Slices(t, i + step, size, step)

\* last resort of split_text: hard split by characters
HardSplit(t, size, overlap) ==
    IF size - overlap = 0 THEN Raised
    ELSE IF size - overlap < 0 THEN Returned(<<>>)
    ELSE Returned(Slices(t, 0, size, size - overlap))

RECURSIVE split_text(_, _, _, _)
RECURSIVE Pack(_, _, _, _, _, _)

\* the loop  for part in parts  of split_text, from the state (cs, current_chunk)
Pack(parts, sep_index, size, overlap, cs, current_chunk) ==
    LET separator == separators[sep_index + 1]
    IN IF parts = <<>>
       THEN Returned(IF current_chunk # <<>> THEN Append(cs, strip(current_chunk)) ELSE cs)
       ELSE LET part == Head(parts)
                test_chunk == IF current_chunk # <<>>
                              THEN current_chunk \o separator \o part ELSE part
                flushed == IF current_chunk # <<>> THEN Append(cs, strip(current_chunk)) ELSE cs
            IN IF Len(test_chunk) <= size
               THEN Pack(Tail(parts), sep_index, size, overlap, cs, test_chunk)
               ELSE IF Len(part) > size
                    THEN LET sub == split_text(part, sep_index + 1, size, overlap)
                         IN IF sub.raised THEN Raised
                            \* current_chunk is not reset here
                            ELSE Pack(Tail(parts), sep_index, size, overlap,
                                      flushed \o sub.chunks, current_chunk)
                    ELSE Pack(Tail(parts), sep_index, size, overlap, flushed, part)

split_text(t, sep_index, size, overlap) ==
    IF Len(t) <= size THEN Returned(IF strip(t) # <<>> THEN <<t>> ELSE <<>>)
    ELSE IF sep_index >= Len(separators) THEN HardSplit(t, size, overlap)
    ELSE Pack(Split(t, separators[sep_index + 1]), sep_index, size, overlap, <<>>, <<>>)

recursive_chunk(t, size, overlap) == split_text(t, 0, size, overlap)

SetMax(S) == IF S = {} THEN 0 ELSE CHOOSE x \in S : \A y \in S : x >= y

\* the number of nested split_text calls a call makes: one for the base case and for
\* the hard split, else one more than the deepest call made for an oversized part
RECURSIVE split_text_depth(_, _, _)
split_text_depth(t, sep_index, size) ==
    IF Len(t) <= size \/ sep_index >= Len(separators) THEN 1
    ELSE LET parts == Split(t, separators[sep_index + 1])
         IN 1 + SetMax({split_text_depth(parts[i], sep_index + 1, size) :
                           i \in {j \in 1..Len(parts) : Len(parts[j]) > size}})

\* a line that  ^## .+$  matches
IsHeaderLine(l) == StartsWith(l, <<"#", "#", SP>>) /\ Len(l) >= 4

Join(ls, sep) ==
    LET RECURSIVE J(_)
        J(x) == IF x = <<>> THEN <<>>
                ELSE IF Len(x) = 1 THEN x[1] ELSE x[1] \o sep \o J(Tail(x))
    IN J(ls)

\* re.split(r"(^## .+$)", text, flags=re.MULTILINE): the text between headers and the
\* header lines, alternating; ls are the lines left, cur the lines of the open part
RECURSIVE HeaderSplit(_, _)
HeaderSplit(ls, cur) ==
    IF ls = <<>> THEN <<Join(cur, <<NL>>)>>
    ELSE IF IsHeaderLine(Head(ls))
         \* the newline before and after the header line stays with the neighbours
         THEN <<Join(Append(cur, <<>>), <<NL>>), Head(ls)>> \o HeaderSplit(Tail(ls), <<<<>>>>)
         ELSE HeaderSplit(Tail(ls), Append(cur, Head(ls)))

\* the loop of chunk_by_markdown_headers over the stripped parts
RECURSIVE Sections(_, _)
Sections(parts, current_header) ==
    IF parts = <<>> THEN <<>>
    ELSE LET part == strip(Head(parts))
         IN IF part = <<>> THEN Sections(Tail(parts), current_header)
            ELSE IF StartsWith(part, <<"#", "#", SP>>) THEN Sections(Tail(parts), part)
            ELSE <<[header |-> current_header, content |-> part]>>
                   \o Sections(Tail(parts), current_header)

\* header None is the empty text here (header = hc["header"] or "")
chunk_by_markdown_headers(t) == Sections(HeaderSplit(Split(t, <<NL>>), <<>>), <<>>)

HeaderMargin == 10

\* f"{header}\n\n{sub}" if header else sub, stripped
WithHeader(header, sub) ==
    strip(IF header # <<>> THEN header \o <<NL, NL>> \o sub ELSE sub)

\* mutant: a section is emitted whole, whatever its length
SectionPieces_noSplit(hc, size, overlap) ==
    Returned(<<[header |-> hc.header, sub |-> hc.content]>>)

\* the pieces of one section: its header with each text emitted for its content
SectionPieces(hc, size, overlap) ==
    IF Len(hc.header) + Len(hc.content) <= size
    THEN Returned(<<[header |-> hc.header, sub |-> hc.content]>>)
    ELSE LET sub_chunks == recursive_chunk(hc.content, size - Len(hc.header) - HeaderMargin,
                                           overlap)
         IN IF sub_chunks.raised THEN Raised
            ELSE Returned([i \in 1..Len(sub_chunks.chunks) |->
                             [header |-> hc.header, sub |-> sub_chunks.chunks[i]]])

RECURSIVE AllPieces(_, _, _)
AllPieces(hcs, size, overlap) ==
    IF hcs = <<>> THEN Returned(<<>>)
    ELSE LET first == SectionPieces(Head(hcs), size, overlap)
             rest == AllPieces(Tail(hcs), size, overlap)
         IN IF first.raised \/ rest.raised THEN Raised
            ELSE Returned(first.chunks \o rest.chunks)

chunk_document(t, size, overlap) ==
    LET header_chunks == chunk_by_markdown_headers(t)
        pieces == AllPieces(header_chunks, size, overlap)
    IN IF header_chunks # <<>>
       THEN IF pieces.raised THEN Raised
            ELSE Returned([i \in 1..Len(pieces.chunks) |->
                             WithHeader(pieces.chunks[i].header, pieces.chunks[i].sub)])
       ELSE recursive_chunk(t, size, overlap)

\* every text of at most n characters
RECURSIVE TextsUpTo(_)
TextsUpTo(n) ==
    IF n = 0 THEN {<<>>}
    ELSE LET shorter == TextsUpTo(n - 1)
         IN shorter \cup {Append(t, c) : t \in shorter, c \in Alphabet}

InitChunkVars ==
    /\ cpc = "init"
    /\ cfun = "none"
    /\ text = <<>>
    /\ chunk_size = 0
    /\ chunk_overlap = 0
    /\ final_chunks = <<>>
    /\ raised = FALSE

-----------------------------------------------------------------------------
(* Dicts: insertion-ordered, a sequence of <<key, value>> pairs *)

DictHas(d, k) == \E i \in 1..Len(d) : d[i][1] = k
DictGet(d, k) == d[CHOOSE i \in 1..Len(d) : d[i][1] = k][2]
\* d[k] = v: an existing key keeps its place
DictSet(d, k, v) ==
    IF DictHas(d, k) THEN [i \in 1..Len(d) |-> IF d[i][1] = k THEN <<k, v>> ELSE d[i]]
    ELSE Append(d, <<k, v>>)
\* {**d, **e}
RECURSIVE DictUpdate(_, _)
DictUpdate(d, e) ==
    IF e = <<>> THEN d ELSE DictUpdate(DictSet(d, Head(e)[1], Head(e)[2]), Tail(e))

KeySource == <<"s", "o", "u", "r", "c", "e">>
KeyFilename == <<"f", "i", "l", "e", "n", "a", "m", "e">>
KeyCategory == <<"c", "a", "t", "e", "g", "o", "r", "y">>
KeyTitle == <<"t", "i", "t", "l", "e">>
KeyContent == <<"c", "o", "n", "t", "e", "n", "t">>
KeyChunkIndex == <<"c", "h", "u", "n", "k", "_", "i", "n", "d", "e", "x">>

-----------------------------------------------------------------------------
(* metadata.py *)

\* Path(source): the components of the path
PathParts(src) == SelectSeq(Split(src, <<"/">>), LAMBDA c : c # <<>> /\ c # <<".">>)
PathName(src) ==
    LET parts == PathParts(src) IN IF parts = <<>> THEN <<>> ELSE parts[Len(parts)]
\* str.rfind, counted from 1, 0 when absent
RFind(s, c) ==
    LET I == {i \in 1..Len(s) : s[i] = c}
    IN IF I = {} THEN 0 ELSE CHOOSE i \in I : \A j \in I : i >= j
\* path.stem: the name without its last suffix
PathStem(src) ==
    LET name == PathName(src)
        i == RFind(name, ".")
    IN IF 1 < i /\ i < Len(name) THEN SubSeq(name, 1, i - 1) ELSE name
\* path.parent.name
ParentName(src) ==
    LET parts == PathParts(src) IN IF Len(parts) >= 2 THEN parts[Len(parts) - 1] ELSE <<>>

\* the cased letters of the model
UpperChar(c) ==
    CASE c = "a" -> "A" [] c = "g" -> "G" [] c = "u" -> "U" [] c = "i" -> "I"
      [] c = "d" -> "D" [] c = "e" -> "E" [] c = "p" -> "P" [] c = "s" -> "S"
      [] OTHER -> c
IsLetter(c) == LowerChar(c) # c \/ UpperChar(c) # c
\* str.title(): a letter after a letter is lowered, any other letter is raised
Title(s) ==
    [i \in 1..Len(s) |->
        IF i > 1 /\ IsLetter(s[i - 1]) THEN LowerChar(s[i]) ELSE UpperChar(s[i])]
\* str.replace for single characters
Replace(s, a, b) == [i \in 1..Len(s) |-> IF s[i] = a THEN b ELSE s[i]]

FrontmatterOpen == <<"-", "-", "-", NL>>
FrontmatterClose == <<NL, "-", "-", "-">>
\* re.match(r"^---\n(.+?)\n---", content, re.DOTALL): the places where the closing
\* "\n---" can start, at least one character after the opening "---\n"
FrontmatterEnds(c) ==
    {j \in (Len(FrontmatterOpen) + 2)..(Len(c) - Len(FrontmatterClose) + 1) :
        SubSeq(c, j, j + Len(FrontmatterClose) - 1) = FrontmatterClose}
HasFrontmatter(c) == StartsWith(c, FrontmatterOpen) /\ FrontmatterEnds(c) # {}
\* frontmatter_match.group(1): the lazy (.+?) stops at the first closing
Frontmatter(c) ==
    LET j == CHOOSE x \in FrontmatterEnds(c) : \A y \in FrontmatterEnds(c) : x <= y
    IN SubSeq(c, Len(FrontmatterOpen) + 1, j - 1)

\* the loop over the frontmatter lines: key, value = line.split(":", 1)
RECURSIVE FrontmatterKeys(_, _)
FrontmatterKeys(lines, md) ==
    IF lines = <<>> THEN md
    ELSE LET line == Head(lines)
             I == {i \in 1..Len(line) : line[i] = ":"}
             i == CHOOSE x \in I : \A y \in I : x <= y
         IN IF I = {} THEN FrontmatterKeys(Tail(lines), md)
            ELSE FrontmatterKeys(Tail(lines),
                                 DictSet(md, strip(SubSeq(line, 1, i - 1)),
                                         strip(SubSeq(line, i + 1, Len(line)))))

\* the last position of the line that position p is on
LineEnd(c, p) ==
    LET N == {i \in p..Len(c) : c[i] = NL}
    IN IF N = {} THEN Len(c) ELSE (CHOOSE i \in N : \A j \in N : i <= j) - 1

\* r"^#\s+(.+)$" tried at position p: the first position of group 1, 0 for no match.
\* \s+ takes the whole run of whitespace behind the "#", newlines too; when the run
\* reaches the end of the content it gives back up to its last space.
HeadingGroupAt(c, p) ==
    IF ~((p = 1 \/ c[p - 1] = NL) /\ c[p] = "#") THEN 0
    ELSE LET E == {i \in (p + 1)..Len(c) : c[i] \notin Whitespace}
             e == IF E = {} THEN Len(c) + 1 ELSE CHOOSE i \in E : \A j \in E : i <= j
             Q == {q \in (p + 2)..Len(c) : c[q] = SP}
         IN IF e = p + 1 THEN 0
            ELSE IF e <= Len(c) THEN e
            ELSE IF Q = {} THEN 0
            ELSE CHOOSE q \in Q : \A r \in Q : q >= r

\* re.search(r"^#\s+(.+)$", content, re.MULTILINE): the leftmost match
HeadingMatches(c) == {p \in 1..Len(c) : HeadingGroupAt(c, p) # 0}
\* title_match.group(1).strip()
HeadingTitle(c) ==
    LET p == CHOOSE x \in HeadingMatches(c) : \A y \in HeadingMatches(c) : x <= y
        g == HeadingGroupAt(c, p)
    IN strip(SubSeq(c, g, LineEnd(c, g)))

extract_metadata(content, src) ==
    LET base == << <<KeySource, src>>, <<KeyFilename, PathStem(src)>>,
                   <<KeyCategory, ParentName(src)>> >>
        md == IF HasFrontmatter(content)
              THEN FrontmatterKeys(Split(Frontmatter(content), <<NL>>), base)
              ELSE base
    IN IF DictHas(md, KeyTitle) THEN md
       ELSE IF HeadingMatches(content) # {}
            THEN DictSet(md, KeyTitle, HeadingTitle(content))
            ELSE DictSet(md, KeyTitle, Title(Replace(PathStem(src), "-", SP)))

\* the values of a chunk dict: strings and the integer of enumerate()
StrVal(t) == [str |-> t]
IntVal(n) == [int |-> n]
StrValues(d) == [i \in 1..Len(d) |-> <<d[i][1], StrVal(d[i][2])>>]

\* {"content": chunk, "chunk_index": i, **metadata} for every chunk
attach_metadata_to_chunks(chunks, md) ==
    [i \in 1..Len(chunks) |->
        DictUpdate(<< <<KeyContent, StrVal(chunks[i])>>, <<KeyChunkIndex, IntVal(i - 1)>> >>,
                   StrValues(md))]

-----------------------------------------------------------------------------
(* cleaner.py *)

\* the pattern pat stands in c at position i
At(c, i, pat) == i >= 1 /\ i + Len(pat) - 1 <= Len(c) /\ SubSeq(c, i, i + Len(pat) - 1) = pat
\* the first position from `from` on where pat stands, 0 if there is none
FirstAt(c, from, pat) ==
    LET K == {k \in from..Len(c) : At(c, k, pat)}
    IN IF K = {} THEN 0 ELSE CHOOSE k \in K : \A j \in K : k <= j
\* . does not match a newline
NoNewline(c, a, b) == \A i \in a..b : c[i] # NL

\* re.sub(r"^---\n.*?\n---\n?", "", text, flags=re.DOTALL)
RemoveFrontmatter(c) ==
    LET j == FirstAt(c, Len(FrontmatterOpen) + 1, FrontmatterClose)
        last == j + Len(FrontmatterClose) - 1
    IN IF ~StartsWith(c, FrontmatterOpen) \/ j = 0 THEN c
       ELSE SubSeq(c, (IF At(c, last + 1, <<NL>>) THEN last + 2 ELSE last + 1), Len(c))

\* <[^>]+> at position i: the last position of the match, 0 for no match
TagEnd(c, i) ==
    LET k == FirstAt(c, i + 1, <<">">>)
    IN IF c[i] # "<" \/ k = 0 \/ k = i + 1 THEN 0 ELSE k
\* \{/\*.*?\*/\}
JsxEnd(c, i) ==
    LET k == FirstAt(c, i + 3, <<"*", "/", "}">>)
    IN IF ~At(c, i, <<"{", "/", "*">>) \/ k = 0 THEN 0
       ELSE IF ~NoNewline(c, i + 3, k - 1) THEN 0 ELSE k + 2
\* !\[.*?\]\(.*?\)
ImageEnd(c, i) ==
    LET k == FirstAt(c, i + 2, <<"]", "(">>)
        m == IF k = 0 THEN 0 ELSE FirstAt(c, k + 2, <<")">>)
    IN IF ~At(c, i, <<"!", "[">>) \/ k = 0 \/ m = 0 THEN 0
       ELSE IF ~NoNewline(c, i + 2, k - 1) \/ ~NoNewline(c, k + 2, m - 1) THEN 0 ELSE m
\* \[([^\]]+)\]\(([^)]+)\): the position of the "]" that closes group 1
LinkMid(c, i) ==
    LET k == FirstAt(c, i + 1, <<"]">>)
    IN IF c[i] # "[" \/ k = 0 \/ k = i + 1 \/ ~At(c, k + 1, <<"(">>) THEN 0 ELSE k
LinkEnd(c, i) ==
    LET k == LinkMid(c, i)
        m == IF k = 0 THEN 0 ELSE FirstAt(c, k + 2, <<")">>)
    IN IF k = 0 \/ m = 0 \/ m = k + 2 THEN 0 ELSE m
\* the run of the character ch that starts at i: its last position
RunEnd(c, i, ch) ==
    LET O == {k \in i..Len(c) : c[k] # ch}
    IN IF O = {} THEN Len(c) ELSE (CHOOSE k \in O : \A j \in O : k <= j) - 1
\* \n{3,} and " {2,}"
NewlinesEnd(c, i) == IF RunEnd(c, i, NL) - i + 1 >= 3 THEN RunEnd(c, i, NL) ELSE 0
SpacesEnd(c, i) == IF RunEnd(c, i, SP) - i + 1 >= 2 THEN RunEnd(c, i, SP) ELSE 0

\* the match of a pattern at position i, and what the match is replaced by
MatchEnd(kind, c, i) ==
    CASE kind = "tag" -> TagEnd(c, i)
      [] kind = "jsx" -> JsxEnd(c, i)
      [] kind = "image" -> ImageEnd(c, i)
      [] kind = "link" -> LinkEnd(c, i)
      [] kind = "newlines" -> NewlinesEnd(c, i)
      [] kind = "spaces" -> SpacesEnd(c, i)
Replacement(kind, c, i) ==
    CASE kind = "link" -> SubSeq(c, i + 1, LinkMid(c, i) - 1)
      [] kind = "newlines" -> <<NL, NL>>
      [] kind = "spaces" -> <<SP>>
      [] OTHER -> <<>>

\* re.sub: every match, left to right, none overlapping
RECURSIVE ReSub(_, _, _)
ReSub(kind, c, i) ==
    IF i > Len(c) THEN <<>>
    ELSE LET k == MatchEnd(kind, c, i)
         IN IF k = 0 THEN <<c[i]>> \o ReSub(kind, c, i + 1)
            ELSE Replacement(kind, c, i) \o ReSub(kind, c, k + 1)

\* a compatibility character: FULLWIDTH LESS-THAN SIGN
FullwidthLt == "U+FF1C"
\* unicodedata.normalize("NFKC", text)
NFKC(c) == [i \in 1..Len(c) |-> IF c[i] = FullwidthLt THEN "<" ELSE c[i]]

clean_markdown(t) ==
    LET t1 == RemoveFrontmatter(t)
        t2 == ReSub("tag", t1, 1)
        t3 == ReSub("jsx", t2, 1)
        t4 == ReSub("image", t3, 1)
        t5 == ReSub("link", t4, 1)
        t6 == ReSub("newlines", t5, 1)
        t7 == ReSub("spaces", t6, 1)
    IN NFKC(strip(t7))

-----------------------------------------------------------------------------
(* pipeline.py, vectorstore.add_chunks: one document *)

DefaultChunkSize == 500
DefaultChunkOverlap == 50

\* add_chunks: the id, document and metadata sent for every chunk
add_chunks(chunks) ==
    [i \in 1..Len(chunks) |->
        [id |-> i - 1,
         document |-> DictGet(chunks[i], KeyContent),
         metadata |-> << <<KeyTitle, DictGet(chunks[i], KeyTitle)>>,
                         <<KeySource, DictGet(chunks[i], KeySource)>>,
                         <<KeyChunkIndex, DictGet(chunks[i], KeyChunkIndex)>> >>]]

InitPipeVars ==
    /\ ppc = "init"
    /\ raw = <<>>
    /\ source = <<>>
    /\ cleaned = <<>>
    /\ metadata = <<>>
    /\ doc_chunks = <<>>
    /\ stored = <<>>

-----------------------------------------------------------------------------
(* The process level: data directory, vector store, API server, ingestion runs *)

Files == <<"a.md", "b.md">>
Runs == {1, 2}

\* the data directories of the model
Disks ==
    { [f \in 1..Len(Files) |-> "nodir"],
      [f \in 1..Len(Files) |-> "absent"],
      [f \in 1..Len(Files) |-> "ok"],
      [f \in 1..Len(Files) |-> IF f = 1 THEN "ok" ELSE "bad"],
      [f \in 1..Len(Files) |-> IF f = 1 THEN "bad" ELSE "ok"] }

\* rglob("*.md"): the files found under the directory
Found(d) == SelectSeq([f \in 1..Len(Files) |-> f], LAMBDA f : d[f] \in {"ok", "bad"})
\* os.path.exists(data_path)
DirExists(d) == \A f \in 1..Len(Files) : d[f] # "nodir"

\* load_markdown_files: open()/read() of an unreadable file raises out of the loop
LoadRaises(d) == \E i \in 1..Len(Found(d)) : d[Found(d)[i]] = "bad"

\* the chunks of the files fs: one chunk per document, in load order
ChunksOf(fs, e) == [i \in 1..Len(fs) |-> [file |-> Files[fs[i]], epoch |-> e]]

\* process_all_documents when the load succeeds
process_all_documents(d, e) == ChunksOf(Found(d), e)

\* the chunks of the readable files
ReadableChunks(d, e) ==
    ChunksOf(SelectSeq([f \in 1..Len(Files) |-> f], LAMBDA f : d[f] = "ok"), e)

\* add_chunks: ids chunk_0 .. chunk_{n-1}
Records(chunks, r) ==
    [i \in 1..Len(chunks) |-> [id |-> i - 1, file |-> chunks[i].file, epoch |-> chunks[i].epoch]]

HasId(docs, id) == \E j \in 1..Len(docs) : docs[j].id = id

\* collection.add: a record whose id is already stored is skipped
CollectionAdd(docs, recs) == docs \o SelectSeq(recs, LAMBDA x : ~HasId(docs, x.id))

\* mutant: the records are sent one by one, the first one is stored before the failure
AddFailed_partial(docs, recs) == CollectionAdd(docs, Take(recs, 1))

\* the store after a collection.add call that failed: the one call stores nothing
AddFailed(docs, recs) == docs

\* deleting the collection leaves every handle to it dangling
Dangle(h) == IF h = "live" THEN "dead" ELSE h

IdleRun(r) == rpc[r] \in {"idle", "end"}
\* between the clear (the collection is deleted) and the completed add
InProgress(r) == rpc[r] \in {"clear2", "process", "embed", "add"}
\* the run's process-wide vectorstore.collection
CollOf(r) == IF rkind[r] = "http" THEN vs_coll ELSE rcoll[r]

NoQuery == [status |-> "none", vector |-> <<>>, bm25 |-> <<>>, stored |-> <<>>,
            during |-> FALSE, ingested |-> FALSE]

InitProcVars ==
    /\ epoch = 1
    /\ cexists = FALSE
    /\ cdocs = <<>>
    /\ server = "down"
    /\ vs_coll = "none"
    /\ rt_coll = "none"
    /\ bm25_docs = <<>>
    /\ ingested = FALSE
    /\ lastq = NoQuery
    /\ rkind = [r \in Runs |-> "http"]
    /\ rpc = [r \in Runs |-> "idle"]
    /\ rcoll = [r \in Runs |-> "none"]
    /\ rchunks = [r \in Runs |-> <<>>]
    /\ rresp = [r \in Runs |-> "none"]
    /\ rfail = [r \in Runs |-> "none"]
    /\ rstored = [r \in Runs |-> 0]

\* the documents are edited on disk
EditDocs ==
    /\ epoch < MaxEpoch
    /\ epoch' = epoch + 1
    /\ UNCHANGED <<searchVars, chunkVars, pipeVars, disk, storeVars, serverVars, runVars>>

\* BM25Okapi(tokenized): avgdl = num_doc / corpus_size divides by zero on an empty corpus
Bm25Raises(docs) == Len(docs) = 0

\* uvicorn imports app.main -> app.api.chat -> app.services.retrieval ->
\* app.services.vectorstore: get_or_create_collection, then _load_bm25_index()
StartServer ==
    /\ server \in {"down", "import_error"}
    /\ cexists' = TRUE
    /\ IF Bm25Raises(cdocs)
       THEN /\ server' = "import_error"
            /\ bm25_docs' = <<>> /\ vs_coll' = "none" /\ rt_coll' = "none"
       ELSE /\ server' = "up"
            /\ bm25_docs' = cdocs /\ vs_coll' = "live" /\ rt_coll' = "live"
    /\ ingested' = FALSE
    /\ lastq' = NoQuery
    /\ UNCHANGED <<searchVars, chunkVars, pipeVars, diskVars, cdocs, runVars>>

\* the server process ends (no request is being served)
StopServer ==
    /\ server = "up"
    /\ \A r \in Runs : rkind[r] = "http" => IdleRun(r)
    /\ server' = "down"
    /\ vs_coll' = "none"
    /\ rt_coll' = "none"
    /\ bm25_docs' = <<>>
    /\ ingested' = FALSE
    /\ lastq' = NoQuery
    /\ UNCHANGED <<searchVars, chunkVars, pipeVars, diskVars, storeVars, runVars>>

\* a run ends with an error: run_indexing returns {"error": ...}, index.py dies
Fail(r, step) ==
    /\ rpc' = [rpc EXCEPT ![r] = "end"]
    /\ rresp' = [rresp EXCEPT ![r] = IF rkind[r] = "http" THEN "error" ELSE "raised"]
    /\ rfail' = [rfail EXCEPT ![r] = step]
    /\ rchunks' = [rchunks EXCEPT ![r] = <<>>]
    /\ rcoll' = [rcoll EXCEPT ![r] = "none"]

\* GET /api/admin/index: run_indexing up to the os.path.exists check
StartHttp(r) ==
    /\ server = "up"
    /\ IdleRun(r)
    /\ rkind' = [rkind EXCEPT ![r] = "http"]
    /\ rstored' = [rstored EXCEPT ![r] = 0]
    /\ IF ~DirExists(disk)
       THEN /\ rpc' = [rpc EXCEPT ![r] = "end"]
            /\ rresp' = [rresp EXCEPT ![r] = "error"]
            /\ rfail' = [rfail EXCEPT ![r] = "nodir"]
       ELSE /\ rpc' = [rpc EXCEPT ![r] = "clear1"]
            /\ rresp' = [rresp EXCEPT ![r] = "none"]
            /\ rfail' = [rfail EXCEPT ![r] = "none"]
    /\ UNCHANGED <<searchVars, chunkVars, pipeVars, diskVars, storeVars, serverVars, rcoll, rchunks>>

\* python index.py: the imports create the collection if it is missing
StartScript(r) ==
    /\ IdleRun(r)
    /\ rkind' = [rkind EXCEPT ![r] = "script"]
    /\ rstored' = [rstored EXCEPT ![r] = 0]
    /\ rpc' = [rpc EXCEPT ![r] = "clear1"]
    /\ rresp' = [rresp EXCEPT ![r] = "none"]
    /\ rfail' = [rfail EXCEPT ![r] = "none"]
    /\ rcoll' = [rcoll EXCEPT ![r] = "live"]
    /\ cexists' = TRUE
    /\ UNCHANGED <<searchVars, chunkVars, pipeVars, diskVars, cdocs, serverVars, rchunks>>

\* clear_collection, first call: client.delete_collection(name="react_docs")
DeleteCollection(r) ==
    /\ rpc[r] = "clear1"
    /\ \E ok \in BOOLEAN :
          IF ok /\ cexists
          THEN /\ cexists' = FALSE
               /\ cdocs' = <<>>
               /\ vs_coll' = Dangle(vs_coll)
               /\ rt_coll' = Dangle(rt_coll)
               /\ rcoll' = [x \in Runs |-> Dangle(rcoll[x])]
               /\ ingested' = FALSE
               /\ rpc' = [rpc EXCEPT ![r] = "clear2"]
               /\ UNCHANGED <<rkind, rchunks, rresp, rfail, rstored, server, bm25_docs, lastq>>
          ELSE /\ Fail(r, "delete")
               /\ UNCHANGED <<rkind, rstored, storeVars, serverVars>>
    /\ UNCHANGED <<searchVars, chunkVars, pipeVars, diskVars>>

\* clear_collection, second call: collection = client.get_or_create_collection(...)
CreateCollection(r) ==
    /\ rpc[r] = "clear2"
    /\ \E ok \in BOOLEAN :
          IF ok
          THEN /\ cexists' = TRUE
               /\ IF rkind[r] = "http"
                  THEN vs_coll' = "live" /\ UNCHANGED rcoll
                  ELSE rcoll' = [rcoll EXCEPT ![r] = "live"] /\ UNCHANGED vs_coll
               /\ rpc' = [rpc EXCEPT ![r] = "process"]
               /\ UNCHANGED <<rkind, rchunks, rresp, rfail, rstored, cdocs,
                              server, rt_coll, bm25_docs, ingested, lastq>>
          ELSE /\ Fail(r, "create")
               /\ UNCHANGED <<rkind, rstored, storeVars, serverVars>>
    /\ UNCHANGED <<searchVars, chunkVars, pipeVars, diskVars>>

\* chunks = process_all_documents(data_path); run_indexing returns if there are none
Process(r) ==
    /\ rpc[r] = "process"
    /\ IF LoadRaises(disk)
       THEN Fail(r, "load")
       ELSE LET chunks == process_all_documents(disk, epoch)
            IN IF rkind[r] = "http" /\ chunks = <<>>
               THEN Fail(r, "nochunks")
               ELSE /\ rchunks' = [rchunks EXCEPT ![r] = chunks]
                    /\ rpc' = [rpc EXCEPT ![r] = "embed"]
                    /\ UNCHANGED <<rresp, rfail, rcoll>>
    /\ UNCHANGED <<searchVars, chunkVars, pipeVars, diskVars, storeVars, serverVars, rkind, rstored>>

\* chunks = embed_chunks(chunks): one provider call per batch of 100 texts
Embed(r) ==
    /\ rpc[r] = "embed"
    /\ \E ok \in BOOLEAN :
          IF ok \/ rchunks[r] = <<>>
          THEN /\ rpc' = [rpc EXCEPT ![r] = "add"]
               /\ UNCHANGED <<rchunks, rresp, rfail, rcoll>>
          ELSE Fail(r, "embed")
    /\ UNCHANGED <<searchVars, chunkVars, pipeVars, diskVars, storeVars, serverVars, rkind, rstored>>

\* add_chunks(chunks): one collection.add call on the process's collection
Add(r) ==
    /\ rpc[r] = "add"
    /\ \E ok \in BOOLEAN :
          LET recs == Records(rchunks[r], r)
          IN IF ok /\ CollOf(r) = "live" /\ recs # <<>>
             THEN /\ cdocs' = CollectionAdd(cdocs, recs)
                  /\ rstored' = [rstored EXCEPT ![r] = Len(cdocs') - Len(cdocs)]
                  /\ rpc' = [rpc EXCEPT ![r] = "end"]
                  /\ rresp' = [rresp EXCEPT ![r] = "ok"]
                  /\ rchunks' = [rchunks EXCEPT ![r] = <<>>]
                  /\ rcoll' = [rcoll EXCEPT ![r] = "none"]
                  /\ ingested' = (rkind[r] = "http" /\ \A x \in Runs \ {r} : ~InProgress(x))
                  /\ UNCHANGED <<rfail, cexists, server, vs_coll, rt_coll, bm25_docs, lastq>>
             ELSE /\ Fail(r, "add")
                  /\ cdocs' = (IF CollOf(r) = "live" THEN AddFailed(cdocs, recs) ELSE cdocs)
                  /\ rstored' = [rstored EXCEPT ![r] = Len(cdocs') - Len(cdocs)]
                  /\ UNCHANGED <<cexists, serverVars>>
    /\ UNCHANGED <<searchVars, chunkVars, pipeVars, diskVars, rkind>>

\* POST /api/chat: hybrid_search reads retrieval.collection and the loaded BM25 lists
Query ==
    /\ server = "up"
    /\ lastq' = [status |-> IF rt_coll = "live" THEN "ok" ELSE "error",
                 vector |-> IF rt_coll = "live" THEN cdocs ELSE <<>>,
                 bm25 |-> bm25_docs,
                 stored |-> cdocs,
                 during |-> \E r \in Runs : InProgress(r),
                 ingested |-> ingested]
    /\ UNCHANGED <<searchVars, chunkVars, pipeVars, diskVars, storeVars, server, vs_coll, rt_coll, bm25_docs,
                   ingested, runVars>>

InitProc ==
    /\ spc = "init" /\ dist = <<>> /\ bscore = <<>> /\ top_k = 1 /\ vw = 1
    /\ filter = <<>> /\ results = <<>>
    /\ disk \in Disks
    /\ InitProcVars
    /\ InitPipeVars
    /\ InitChunkVars

NextProc ==
    \/ EditDocs
    \/ StartServer
    \/ StopServer
    \/ Query
    \/ \E r \in Runs : StartHttp(r)
    \/ \E r \in Runs : StartScript(r)
    \/ \E r \in Runs : DeleteCollection(r)
    \/ \E r \in Runs : CreateCollection(r)
    \/ \E r \in Runs : Process(r)
    \/ \E r \in Runs : Embed(r)
    \/ \E r \in Runs : Add(r)

SpecProc == InitProc /\ [][NextProc]_vars

-----------------------------------------------------------------------------
(* One search call on a loaded corpus *)
InitSearch ==
    /\ spc = "init"
    /\ dist \in [Docs -> Vals]
    /\ bscore \in [Docs -> Vals]
    /\ top_k \in 1..MaxTopK
    /\ vw \in Weights
    /\ filter \in Filters
    /\ results = <<>>
    /\ disk = [f \in 1..Len(Files) |-> "nodir"]
    /\ InitProcVars
    /\ InitPipeVars
    /\ InitChunkVars

Search ==
    /\ spc = "init"
    /\ spc' = "called"
    /\ results' = hybrid_search(dist, bscore, top_k, vw, filter)
    /\ UNCHANGED <<dist, bscore, top_k, vw, filter, procVars, chunkVars, pipeVars>>

NextSearch == Search
SpecSearch == InitSearch /\ [][NextSearch]_vars

-----------------------------------------------------------------------------
(* One call of the chunker *)
InitChunk ==
    /\ cpc = "init"
    /\ cfun = "none"
    /\ text \in TextsUpTo(MaxLen)
    /\ chunk_size \in 0..MaxSize
    /\ chunk_overlap \in 0..MaxOverlap
    /\ final_chunks = <<>>
    /\ raised = FALSE
    /\ spc = "init" /\ dist = <<>> /\ bscore = <<>> /\ top_k = 1 /\ vw = 1
    /\ filter = <<>> /\ results = <<>>
    /\ disk = [f \in 1..Len(Files) |-> "nodir"]
    /\ InitProcVars
    /\ InitPipeVars

CallRecursiveChunk ==
    /\ cpc = "init"
    /\ cpc' = "done"
    /\ cfun' = "recursive_chunk"
    /\ LET out == recursive_chunk(text, chunk_size, chunk_overlap)
       IN final_chunks' = out.chunks /\ raised' = out.raised
    /\ UNCHANGED <<text, chunk_size, chunk_overlap, searchVars, procVars, pipeVars>>

CallChunkDocument ==
    /\ cpc = "init"
    /\ cpc' = "done"
    /\ cfun' = "chunk_document"
    /\ LET out == chunk_document(text, chunk_size, chunk_overlap)
       IN final_chunks' = out.chunks /\ raised' = out.raised
    /\ UNCHANGED <<text, chunk_size, chunk_overlap, searchVars, procVars, pipeVars>>

NextChunk == CallRecursiveChunk \/ CallChunkDocument
SpecChunk == InitChunk /\ [][NextChunk]_vars

-----------------------------------------------------------------------------
(* One call of the chunker on a document with sections *)

\* the header line of the documents
DocHeader == <<"#", "#", SP, "a">>

\* what the documents are built from: words, each separator, and a header line
DocPieces ==
    { <<"a", "a", "a", "a", "a">>,
      <<"a", ".", SP, "a">>,
      <<"a", NL, NL, ".">>,
      <<"a", SP, ".">>,
      <<SP>>,
      <<NL>> \o DocHeader \o <<NL>> }

\* every concatenation of at most n pieces
RECURSIVE DocsUpTo(_)
DocsUpTo(n) ==
    IF n = 0 THEN {<<>>}
    ELSE LET shorter == DocsUpTo(n - 1)
         IN shorter \cup {t \o p : t \in shorter, p \in DocPieces}

\* chunk sizes around the point where a section under DocHeader gets a positive budget
DocSizes == (Len(DocHeader) + HeaderMargin)..(Len(DocHeader) + HeaderMargin + MaxBudget)

InitDoc ==
    /\ cpc = "init"
    /\ cfun = "none"
    /\ text \in DocsUpTo(MaxPieces)
    /\ chunk_size \in DocSizes
    /\ chunk_overlap \in 0..MaxOverlap
    /\ final_chunks = <<>>
    /\ raised = FALSE
    /\ spc = "init" /\ dist = <<>> /\ bscore = <<>> /\ top_k = 1 /\ vw = 1
    /\ filter = <<>> /\ results = <<>>
    /\ disk = [f \in 1..Len(Files) |-> "nodir"]
    /\ InitProcVars
    /\ InitPipeVars

SpecDoc == InitDoc /\ [][NextChunk]_vars

-----------------------------------------------------------------------------
(* One document through the pipeline and into the store *)

\* the frontmatter blocks of the documents
FrontMatters ==
    { <<>>,
      <<"-", "-", "-", "\n", "t", "i", "t", "l", "e", ":", " ", "U", "s", "e", "\n", "-", "-", "-", "\n">>,
      <<"-", "-", "-", "\n", "t", "i", "t", "l", "e", ":", "\n", "-", "-", "-", "\n">>,
      <<"-", "-", "-", "\n", "i", "d", ":", " ", "a", "\n", "-", "-", "-", "\n">>,
      <<"-", "-", "-", "\n", "c", "h", "u", "n", "k", "_", "i", "n", "d", "e", "x", ":", " ", "7", "\n", "-", "-", "-", "\n">>,
      <<"-", "-", "-", "\n", "c", "o", "n", "t", "e", "n", "t", ":", " ", "a", "\n", "-", "-", "-", "\n">> }

\* the lines of the documents
BodyLines ==
    { <<"#", " ", "A", "p", "i", "\n">>,
      <<"#", "\n">>,
      <<"#", "#", " ", "U", "s", "e", "\n">>,
      <<"G", "u", "i", "d", "e", ".", "\n">>,
      <<"-", "-", "-", "\n">>,
      <<NL>>,
      <<FullwidthLt>> \o <<"e", ">", " ", "<", "i", ">", "[", "!", "[", "a", "]", "(", "u", ")", "]", "(", "u", ")", " ", "{", "/", "*", "s", "*", "/", "}", "\n">> }

\* every sequence of at most n lines
RECURSIVE BodiesUpTo(_)
BodiesUpTo(n) ==
    IF n = 0 THEN {<<>>}
    ELSE LET shorter == BodiesUpTo(n - 1)
         IN shorter \cup {t \o l : t \in shorter, l \in BodyLines}

Sources ==
    { <<"d", "/", "u", "s", "e", "-", "a", "p", "i", ".", "m", "d">>,
      <<"g", "u", "i", "d", "e", ".", "m", "d">>,
      <<"a", "p", "i", "/", "a", ".", "d", ".", "m", "d">> }

InitPipe ==
    /\ ppc = "init"
    /\ \E fm \in FrontMatters, body \in BodiesUpTo(MaxLines) : raw = fm \o body
    /\ source \in Sources
    /\ cleaned = <<>>
    /\ metadata = <<>>
    /\ doc_chunks = <<>>
    /\ stored = <<>>
    /\ spc = "init" /\ dist = <<>> /\ bscore = <<>> /\ top_k = 1 /\ vw = 1
    /\ filter = <<>> /\ results = <<>>
    /\ disk = [f \in 1..Len(Files) |-> "nodir"]
    /\ InitProcVars
    /\ InitChunkVars

\* the body of the loop  for doc in docs  of process_all_documents
ProcessDocument ==
    /\ ppc = "init"
    /\ \E cl \in {clean_markdown(raw)}, md \in {extract_metadata(raw, source)} :
         \E out \in {chunk_document(cl, DefaultChunkSize, DefaultChunkOverlap)} :
            /\ cleaned' = cl
            /\ metadata' = md
            /\ IF out.raised
               THEN ppc' = "raised" /\ doc_chunks' = <<>>
               ELSE ppc' = "done" /\ doc_chunks' = attach_metadata_to_chunks(out.chunks, md)
    /\ UNCHANGED <<raw, source, stored, searchVars, procVars, chunkVars>>

\* add_chunks(chunks) on the chunks of the document
StoreChunks ==
    /\ ppc = "done"
    /\ ppc' = "stored"
    /\ stored' = add_chunks(doc_chunks)
    /\ UNCHANGED <<raw, source, cleaned, metadata, doc_chunks, searchVars, procVars, chunkVars>>

NextPipe == ProcessDocument \/ StoreChunks
SpecPipe == InitPipe /\ [][NextPipe]_vars

-----------------------------------------------------------------------------
(* Claims about hybrid_search, stated from the specification's wording *)

\* every filter key's value is a case-insensitive substring of the metadata value
Satisfies(meta, f) ==
    \A i \in 1..Len(f) :
        LET have == lower(IF f[i][1] \in DOMAIN meta THEN meta[f[i][1]] ELSE <<>>)
            want == lower(f[i][2])
        IN \E o \in 0..(Len(have) - Len(want)) : SubSeq(have, o + 1, o + Len(want)) = want

\* the two candidate lists of the current call, after the filter
VecCands == SelectSeq(vector_search(dist, 2 * top_k), LAMBDA r : Satisfies(r.metadata, filter))
BmCands == SelectSeq(bm25_search(bscore, 2 * top_k), LAMBDA r : Satisfies(r.metadata, filter))
Ids(rs) == [i \in 1..Len(rs) |-> rs[i].id]
InSeq(x, s) == \E i \in 1..Len(s) : s[i] = x
IndexOf(x, s) == CHOOSE i \in 1..Len(s) : s[i] = x

\* merge order: the vector list, then the BM25-only candidates in BM25-list order
MergeOrderOf(vc, bc) == Ids(vc) \o SelectSeq(Ids(bc), LAMBDA id : ~InSeq(id, Ids(vc)))
MergeOrder == MergeOrderOf(VecCands, BmCands)

\* min-max normalized signals of a candidate, 0 for a missing signal
ExpVectorScoreIn(vc, id) ==
    IF ~InSeq(id, Ids(vc)) THEN 0
    ELSE LET D == {vc[i].distance : i \in 1..Len(vc)}
             lo == CHOOSE x \in D : \A y \in D : x <= y
             hi == CHOOSE x \in D : \A y \in D : x >= y
             d == vc[IndexOf(id, Ids(vc))].distance
         IN ONE - ((d - lo) * ONE) \div (IF hi = lo THEN 1 ELSE hi - lo)
ExpBm25ScoreIn(bc, id) ==
    IF ~InSeq(id, Ids(bc)) THEN 0
    ELSE LET X == {bc[i].score : i \in 1..Len(bc)}
             lo == CHOOSE x \in X : \A y \in X : x <= y
             hi == CHOOSE x \in X : \A y \in X : x >= y
             x0 == bc[IndexOf(id, Ids(bc))].score
         IN ((x0 - lo) * ONE) \div (IF hi = lo THEN 1 ELSE hi - lo)

\* C1: hybrid_search returns exactly the first top_k merged candidates in descending
\* order of final score, candidates of equal score in merge order (vector list first,
\* then the BM25-only candidates); so it never returns more than top_k entries.
C1_TopKStable ==
    spc = "called" =>
        LET vc == VecCands
            bc == BmCands
            m == MergeOrderOf(vc, bc)
            \* final score and merge position of every candidate
            fin == [k \in 1..Len(m) |->
                      ExpVectorScoreIn(vc, m[k]) * vw + ExpBm25ScoreIn(bc, m[k]) * (WD - vw)]
            \* the candidate at a ranks before the one at b: higher final score, or
            \* equal score and earlier in merge order
            RanksBefore(a, b) == fin[a] > fin[b] \/ (fin[a] = fin[b] /\ a < b)
            at == [i \in 1..Len(results) |->
                      IF InSeq(results[i].id, m) THEN IndexOf(results[i].id, m) ELSE 0]
        IN /\ Len(results) = (IF top_k < Len(m) THEN top_k ELSE Len(m))
           /\ Len(results) <= top_k
           /\ \A i \in 1..Len(results) : at[i] # 0 /\ results[i].score = fin[at[i]]
           /\ \A i, j \in 1..Len(results) : i < j => RanksBefore(at[i], at[j])
           /\ \A k \in 1..Len(m) :
                 (\A i \in 1..Len(results) : at[i] # k) =>
                     \A i \in 1..Len(results) : RanksBefore(at[i], k)

\* a call whose result was truncated and whose first two results tie on the score
C1_Witness ==
    /\ spc = "called"
    /\ vw \in 1..(WD - 1)
    /\ Len(MergeOrder) > top_k
    /\ Len(results) >= 2
    /\ results[1].score = results[2].score
    /\ results[1].score > 0

\* C2: the lists are merged by chunk id: no id is returned twice, a chunk of only one
\* list has 0 for the other signal, and
\* score = vector_score * vector_weight + bm25_score * (1 - vector_weight).
C2_MergeById ==
    spc = "called" =>
        LET vids == Ids(VecCands)
            bids == Ids(BmCands)
        IN /\ \A i, j \in 1..Len(results) : results[i].id = results[j].id => i = j
           /\ \A i \in 1..Len(results) :
                 LET r == results[i]
                 IN /\ ~InSeq(r.id, bids) => r.bm25_score = 0
                    /\ ~InSeq(r.id, vids) => r.vector_score = 0
                    /\ r.score = r.vector_score * vw + r.bm25_score * (WD - vw)

\* a returned chunk that only the vector list holds, with a positive vector score
C2_Witness ==
    /\ spc = "called"
    /\ vw \in 1..(WD - 1)
    /\ \E i \in 1..Len(results) :
          /\ ~InSeq(results[i].id, Ids(BmCands))
          /\ results[i].vector_score > 0
          /\ results[i].score > 0

\* C3: with a filter, every returned result satisfies it, and each signal is
\* normalized over the filtered candidates of its own list only (the filter runs on
\* both lists before normalization and merging).
C3_FilterBeforeFusion ==
    (spc = "called" /\ filter # <<>>) =>
        LET vc == VecCands
            bc == BmCands
        IN \A i \in 1..Len(results) :
              /\ Satisfies(results[i].metadata, filter)
              /\ results[i].vector_score = ExpVectorScoreIn(vc, results[i].id)
              /\ results[i].bm25_score = ExpBm25ScoreIn(bc, results[i].id)

\* a filtered call that dropped a candidate and still returned a result
C3_Witness ==
    /\ spc = "called"
    /\ vw \in 1..(WD - 1)
    /\ filter # <<>>
    /\ results # <<>>
    /\ Len(VecCands) < Len(vector_search(dist, 2 * top_k))
    /\ Len(BmCands) < Len(bm25_search(bscore, 2 * top_k))

\* vector_weight clamped into [0, 1]
Clamp(w) == IF w < 0 THEN 0 ELSE IF w > WD THEN WD ELSE w

\* C9: a vector_weight outside [0,1] is clamped or rejected: a call that returns
\* (instead of rejecting) returns what the clamped weight gives.
C9_WeightClampedOrRejected ==
    (spc = "called" /\ vw \notin 0..WD) =>
        results = hybrid_search(dist, bscore, top_k, Clamp(vw), filter)

\* the BM25-only chunks with the highest BM25 score of the BM25 candidates
BestBm25Only ==
    {BmCands[i].id : i \in {j \in 1..Len(BmCands) :
        /\ \A x \in 1..Len(BmCands) : BmCands[x].score <= BmCands[j].score
        /\ ~InSeq(BmCands[j].id, Ids(VecCands))}}
\* the vector-only chunks with the smallest distance of the vector candidates
BestVectorOnly ==
    {VecCands[i].id : i \in {j \in 1..Len(VecCands) :
        /\ \A x \in 1..Len(VecCands) : VecCands[x].distance >= VecCands[j].distance
        /\ ~InSeq(VecCands[j].id, Ids(BmCands))}}
\* the BM25 candidates do not all have the same score
Bm25ScoresDiffer == \E i, j \in 1..Len(BmCands) : BmCands[i].score # BmCands[j].score

\* C20 as stated: with vector_weight = 0.5, a best BM25-only chunk A and a best
\* vector-only chunk B both get the final score 0.5 (ONE in units of 1/(ONE*WD)),
\* and B is ranked before A.
C20_FusionTie ==
    (spc = "called" /\ vw * 2 = WD) =>
        LET R == RankedResults(dist, bscore, top_k, vw, filter)
        IN \A a \in BestBm25Only, b \in BestVectorOnly :
              /\ R[IndexOf(a, Ids(R))].score = ONE
              /\ R[IndexOf(b, Ids(R))].score = ONE
              /\ IndexOf(b, Ids(R)) < IndexOf(a, Ids(R))

\* C20 amended: B gets the final score 0.5; A gets 0.5 when the BM25 candidates'
\* scores are not all equal and 0 when they are (the range is then taken as 1); B is
\* ranked before A in both cases.
C20_FusionTieAmended ==
    (spc = "called" /\ vw * 2 = WD) =>
        LET R == RankedResults(dist, bscore, top_k, vw, filter)
        IN \A a \in BestBm25Only, b \in BestVectorOnly :
              /\ R[IndexOf(a, Ids(R))].score = (IF Bm25ScoresDiffer THEN ONE ELSE 0)
              /\ R[IndexOf(b, Ids(R))].score = ONE
              /\ IndexOf(b, Ids(R)) < IndexOf(a, Ids(R))

\* a call with vector_weight 0.5 where a best BM25-only chunk and a best vector-only
\* chunk tie at 0.5 and the vector-only chunk is returned first
C20_Witness ==
    /\ spc = "called" /\ vw * 2 = WD
    /\ Bm25ScoresDiffer
    /\ BestBm25Only # {} /\ BestVectorOnly # {}
    /\ results # <<>>
    /\ results[1].id \in BestVectorOnly
    /\ results[1].score = ONE

-----------------------------------------------------------------------------
(* Claims about ingestion and the running server *)

\* C4: once an ingestion of the running server process has completed (and nothing has
\* touched the store since), a hybrid_search of that process reads both candidate
\* lists from the corpus that ingestion wrote.
C4_QueryReadsLastIngestion ==
    (lastq.status # "none" /\ lastq.ingested) =>
        /\ lastq.status = "ok"
        /\ lastq.vector = lastq.stored
        /\ lastq.bm25 = lastq.stored

\* C5: a full ingestion is exclusive: no two runs are between their clear and their
\* completed add at once, and no query reads the corpus while a run is.
C5_IngestionExclusive ==
    /\ \A r1, r2 \in Runs : (InProgress(r1) /\ InProgress(r2)) => r1 = r2
    /\ ~lastq.during

\* C6: an unreadable file is skipped: the load never aborts the run, and the run
\* goes on with the chunks of exactly the readable files.
C6_BadFileSkipped ==
    \A r \in Runs :
        /\ rfail[r] # "load"
        /\ rpc[r] = "embed" =>
              [i \in 1..Len(rchunks[r]) |-> rchunks[r][i].file]
                = [i \in 1..Len(ReadableChunks(disk, epoch)) |-> ReadableChunks(disk, epoch)[i].file]

\* a complete corpus holds one record per document found
FullCorpus(docs) == Len(docs) = Len(Found(disk))

\* C7: when the embedding call or a vector-store call of a run fails, the run has
\* stopped at that step, its caller holds the failure (an error response or the raised
\* exception), the run has written nothing, and the store is empty or complete, never
\* a part of a corpus.
C7_ProviderFailureAborts ==
    /\ \A r \in Runs :
          rfail[r] \in {"embed", "delete", "create", "add"} =>
              /\ rpc[r] = "end"
              /\ rresp[r] \in {"error", "raised"}
              /\ rstored[r] = 0
    /\ cdocs = <<>> \/ FullCorpus(cdocs)

\* a run_indexing request whose collection.add call failed after a successful embed
C7_Witness ==
    \E r \in Runs :
        /\ rfail[r] = "add"
        /\ rkind[r] = "http"
        /\ rresp[r] = "error"
        /\ vs_coll = "live"
        /\ Len(Found(disk)) = Len(Files)

\* C8: on an empty corpus the lexical index is built without an error and
\* hybrid_search returns an empty list.
C8_EmptyCorpusEmptyResult ==
    /\ server # "import_error"
    /\ (lastq.status # "none" /\ lastq.stored = <<>>) =>
          (lastq.status = "ok" /\ lastq.vector = <<>> /\ lastq.bm25 = <<>>)

-----------------------------------------------------------------------------
(* Claims about the chunker *)

NonWs(s) == SelectSeq(s, LAMBDA c : c \notin Whitespace)

RECURSIVE Flatten(_)
Flatten(ss) == IF ss = <<>> THEN <<>> ELSE Head(ss) \o Flatten(Tail(ss))

\* a is a subsequence of b
RECURSIVE IsSubseq(_, _)
IsSubseq(a, b) ==
    IF a = <<>> THEN TRUE
    ELSE IF b = <<>> THEN FALSE
    ELSE IF Head(a) = Head(b) THEN IsSubseq(Tail(a), Tail(b))
    ELSE IsSubseq(a, Tail(b))

\* the text the chunks of the current call have to cover: the whole text for
\* recursive_chunk, the contents of the sections (without header lines) for chunk_document
CoveredText ==
    IF cfun = "recursive_chunk" THEN text
    ELSE LET hcs == chunk_by_markdown_headers(text)
         IN Flatten([i \in 1..Len(hcs) |-> hcs[i].content])

\* the emitted texts without the prefixed headers
EmittedTexts ==
    IF cfun = "recursive_chunk" THEN final_chunks
    ELSE LET hcs == chunk_by_markdown_headers(text)
             pieces == AllPieces(hcs, chunk_size, chunk_overlap)
         IN IF hcs = <<>> \/ pieces.raised THEN final_chunks
            ELSE [i \in 1..Len(pieces.chunks) |-> pieces.chunks[i].sub]

\* the budget the call hands to split_text is a valid one: positive and above the overlap
ValidBudget ==
    IF cfun = "recursive_chunk" THEN chunk_size >= 1 /\ chunk_overlap < chunk_size
    ELSE LET hcs == chunk_by_markdown_headers(text)
         IN \A i \in 1..Len(hcs) :
               \/ Len(hcs[i].header) + Len(hcs[i].content) <= chunk_size
               \/ chunk_size - Len(hcs[i].header) - HeaderMargin > chunk_overlap

\* C10: for a text with content and a valid budget, the call returns at least one
\* non-empty chunk and every non-whitespace character of the input is found, in
\* order, in the outputs without their headers (nothing is dropped).
C10_Coverage ==
    (cpc = "done" /\ ValidBudget /\ NonWs(CoveredText) # <<>>) =>
        /\ ~raised
        /\ \E i \in 1..Len(final_chunks) : final_chunks[i] # <<>>
        /\ IsSubseq(NonWs(CoveredText), NonWs(Flatten(EmittedTexts)))

\* C11: no returned chunk is empty or whitespace-only
C11_NoEmptyChunk ==
    cpc = "done" => \A i \in 1..Len(final_chunks) : strip(final_chunks[i]) # <<>>

\* the chunks cs occur in t one after the other: each at a position that is not
\* before the position of the one emitted before it (the earliest one is taken)
RECURSIVE InOrderFrom(_, _, _)
InOrderFrom(cs, t, from) ==
    IF cs = <<>> THEN TRUE
    ELSE LET c == Head(cs)
             P == {p \in from..(Len(t) - Len(c)) : SubSeq(t, p + 1, p + Len(c)) = c}
         IN /\ P # {}
            /\ InOrderFrom(Tail(cs), t, CHOOSE p \in P : \A q \in P : p <= q)

\* C12: the chunks are emitted in source order: the emitted texts (without their
\* headers) can be found in the input at positions that never go backwards.
C12_SourceOrder ==
    cpc = "done" => InOrderFrom(EmittedTexts, text, 0)

\* the budgets and texts the current call hands to split_text
SplitCalls ==
    IF cfun = "recursive_chunk" \/ chunk_by_markdown_headers(text) = <<>>
    THEN {<<text, chunk_size>>}
    ELSE LET hcs == chunk_by_markdown_headers(text)
         IN {<<hcs[i].content, chunk_size - Len(hcs[i].header) - HeaderMargin>> :
               i \in {j \in 1..Len(hcs) : Len(hcs[j].header) + Len(hcs[j].content) > chunk_size}}

\* C13: chunking with a positive chunk_size always terminates: split_text never nests
\* deeper than one call per separator plus the hard split, and the call ends by
\* returning its chunks (the hard split finishes and returns its slices).
C13_Terminates ==
    (cpc = "done" /\ chunk_size >= 1) =>
        /\ \A c \in SplitCalls : split_text_depth(c[1], 0, c[2]) <= Len(separators) + 1
        /\ ~raised

\* the header of the section each emitted chunk comes from (none for recursive_chunk)
EmittedHeaders ==
    IF cfun = "recursive_chunk" \/ chunk_by_markdown_headers(text) = <<>>
    THEN [i \in 1..Len(final_chunks) |-> <<>>]
    ELSE LET pieces == AllPieces(chunk_by_markdown_headers(text), chunk_size, chunk_overlap)
         IN [i \in 1..Len(pieces.chunks) |-> pieces.chunks[i].header]

\* C14: every emitted chunk (from the hard split or not) is at most chunk_size plus
\* the length of its section's header plus the two characters that join them.
C14_BoundedSize ==
    (cpc = "done" /\ ~raised) =>
        \A i \in 1..Len(final_chunks) :
            Len(final_chunks[i]) <= chunk_size + Len(EmittedHeaders[i]) + Len(<<NL, NL>>)

\* chunk_document split a section under a header with a valid budget, and one of
\* its chunks is the header joined to a part of the section's content
C14_Witness ==
    /\ cpc = "done" /\ cfun = "chunk_document" /\ ~raised
    /\ chunk_size - Len(DocHeader) - HeaderMargin > chunk_overlap
    /\ \E i \in 1..Len(final_chunks) :
          /\ EmittedHeaders[i] = DocHeader
          /\ Len(final_chunks[i]) > Len(DocHeader) + Len(<<NL, NL>>)
          /\ Len(final_chunks[i]) < Len(text)
    /\ \E c \in SplitCalls : Len(c[1]) > c[2]

-----------------------------------------------------------------------------
(* Claims about the pipeline, the metadata and the stored records *)

\* C15: the chunks of a processed document carry chunk_index 0, 1, ..., n-1 in
\* emission order, whatever the document's content and frontmatter.
C15_ChunkIndexInOrder ==
    ppc \in {"done", "stored"} =>
        \A i \in 1..Len(doc_chunks) :
            /\ DictHas(doc_chunks[i], KeyChunkIndex)
            /\ DictGet(doc_chunks[i], KeyChunkIndex) = IntVal(i - 1)

\* C16: extract_metadata returns the keys source, filename, category and title, and
\* the title is a non-empty string.
C16_MetadataKeys ==
    ppc \in {"done", "stored"} =>
        /\ \A k \in {KeySource, KeyFilename, KeyCategory, KeyTitle} : DictHas(metadata, k)
        /\ DictGet(metadata, KeyTitle) # <<>>

\* the lines of a leading frontmatter block: the lines between a first line "---" and
\* the next line "---"; none when the content does not start with such a block
ExpFrontmatterLines(content) ==
    LET lines == Split(content, <<NL>>)
        fence == <<"-", "-", "-">>
        C == {k \in 2..Len(lines) : lines[k] = fence}
    IN IF lines[1] # fence \/ C = {} THEN <<>>
       ELSE SubSeq(lines, 2, (CHOOSE k \in C : \A j \in C : k <= j) - 1)
\* the frontmatter lines that define the key title
ExpTitleLines(content) ==
    SelectSeq(ExpFrontmatterLines(content),
              LAMBDA l : \E i \in 1..Len(l) :
                             l[i] = ":" /\ strip(SubSeq(l, 1, i - 1)) = KeyTitle)
\* the lines that are a top-level heading: "# " and a text
ExpHeadingLines(content) ==
    SelectSeq(Split(content, <<NL>>), LAMBDA l : StartsWith(l, <<"#", SP>>))

\* the title by the fallback order: frontmatter title, first "# " heading, filename
ExpTitle(content, src) ==
    IF ExpTitleLines(content) # <<>>
    THEN LET l == ExpTitleLines(content)[Len(ExpTitleLines(content))]
         IN strip(SubSeq(l, FirstAt(l, 1, <<":">>) + 1, Len(l)))
    ELSE IF ExpHeadingLines(content) # <<>>
         THEN strip(SubSeq(ExpHeadingLines(content)[1], 3, Len(ExpHeadingLines(content)[1])))
         ELSE Title(Replace(PathStem(src), "-", SP))

\* C17: the title is the frontmatter title if the leading frontmatter block defines
\* one, otherwise the text of the first "# " heading, otherwise the title-cased
\* filename stem with hyphens replaced by spaces.
C17_TitleFallbackOrder ==
    ppc \in {"done", "stored"} =>
        /\ DictHas(metadata, KeyTitle)
        /\ DictGet(metadata, KeyTitle) = ExpTitle(raw, source)

\* C18: clean_markdown is idempotent: cleaning the cleaned text changes nothing
C18_CleanIdempotent ==
    ppc \in {"done", "stored"} => clean_markdown(cleaned) = cleaned

\* C19: every stored record keeps its chunk's content, chunk_index and all metadata
\* fields (source, filename, category, title).
C19_StoredKeepsMetadata ==
    ppc = "stored" =>
        /\ Len(stored) = Len(doc_chunks)
        /\ \A i \in 1..Len(stored) :
              /\ stored[i].document = DictGet(doc_chunks[i], KeyContent)
              /\ \A k \in {KeySource, KeyFilename, KeyCategory, KeyTitle, KeyChunkIndex} :
                    /\ DictHas(stored[i].metadata, k)
                    /\ DictGet(stored[i].metadata, k) = DictGet(doc_chunks[i], k)

-----------------------------------------------------------------------------
(* Claims about bm25_search and the normalization *)

\* the list bm25_search returned to the hybrid_search call of this state
Bm25Returned == bm25_search(bscore, top_k * 2)
\* corpus position of a returned chunk
CorpusPos(r) == CHOOSE d \in Docs : ChunkId(d) = r.id

\* C21: bm25_search returns min(top_k, corpus size) chunks, each with its own BM25
\* score, ordered by score descending, chunks of equal score in corpus order; no
\* chunk left out ranks before a returned one.
C21_Bm25TopK ==
    spc = "called" =>
        LET r == Bm25Returned
            k == top_k * 2
            pos == [i \in 1..Len(r) |-> CorpusPos(r[i])]
            Before(a, b) == bscore[a] > bscore[b] \/ (bscore[a] = bscore[b] /\ a < b)
        IN /\ Len(r) = (IF k < NumDocs THEN k ELSE NumDocs)
           /\ \A i \in 1..Len(r) : r[i].score = bscore[pos[i]]
           /\ \A i, j \in 1..Len(r) : i < j => Before(pos[i], pos[j])
           /\ \A d \in Docs :
                 (\A i \in 1..Len(r) : pos[i] # d) =>
                     \A i \in 1..Len(r) : Before(pos[i], d)

\* a call whose BM25 list was cut to fewer chunks than the corpus has, with two
\* returned chunks of equal score and a chunk of that score left out
C21_Witness ==
    /\ spc = "called"
    /\ Len(Bm25Returned) = top_k * 2
    /\ Len(Bm25Returned) < NumDocs
    /\ Bm25Returned[1].score = Bm25Returned[2].score
    /\ \E d \in Docs : bscore[d] = Bm25Returned[2].score
                        /\ \A i \in 1..Len(Bm25Returned) : Bm25Returned[i].id # ChunkId(d)

\* smallest and largest element of a non-empty set of numbers
Lowest(S) == CHOOSE x \in S : \A y \in S : x <= y
Highest(S) == CHOOSE x \in S : \A y \in S : x >= y
\* the distances of the vector candidates and the scores of the BM25 candidates
CandDistances == {VecCands[i].distance : i \in 1..Len(VecCands)}
CandScores == {BmCands[i].score : i \in 1..Len(BmCands)}
\* the merged entry of a candidate, before the list is cut to top_k
Merged(id) ==
    LET R == RankedResults(dist, bscore, top_k, vw, filter)
    IN R[IndexOf(id, Ids(R))]

\* C22: each filtered candidate list is min-max normalized on its own:
\* (1 - vector_score) * (max - min) = distance - min and
\* bm25_score * (max - min) = score - min, both within 0..1 (0..ONE here), the
\* smallest distance gets 1 and the largest 0; when max = min (a single element
\* included) every vector candidate gets 1 and every BM25 candidate gets 0.
C22_MinMaxNormalized ==
    spc = "called" =>
        /\ \A i \in 1..Len(VecCands) :
              LET lo == Lowest(CandDistances)
                  hi == Highest(CandDistances)
                  d == VecCands[i].distance
                  v == Merged(VecCands[i].id).vector_score
              IN /\ v \in 0..ONE
                 /\ hi # lo => /\ (ONE - v) * (hi - lo) = (d - lo) * ONE
                               /\ d = lo => v = ONE
                               /\ d = hi => v = 0
                 /\ hi = lo => v = ONE
        /\ \A i \in 1..Len(BmCands) :
              LET lo == Lowest(CandScores)
                  hi == Highest(CandScores)
                  x == BmCands[i].score
                  b == Merged(BmCands[i].id).bm25_score
              IN /\ b \in 0..ONE
                 /\ hi # lo => b * (hi - lo) = (x - lo) * ONE
                 /\ hi = lo => b = 0

\* a call where the distances of three vector candidates normalize to 1, 0.5 and 0,
\* while the BM25 candidates (more than one) all have the same score, not 0, and
\* get bm25_score 0
C22_Witness ==
    /\ spc = "called"
    /\ Len(VecCands) = NumDocs
    /\ \A n \in {0, ONE \div 2, ONE} :
          \E i \in 1..Len(VecCands) : Merged(VecCands[i].id).vector_score = n
    /\ Len(BmCands) > 1
    /\ Lowest(CandScores) = Highest(CandScores)
    /\ Lowest(CandScores) > 0
    /\ \A i \in 1..Len(BmCands) : Merged(BmCands[i].id).bm25_score = 0

-----------------------------------------------------------------------------
(* Claims about documents without headers, repeated text and chunk fields *)

\* the text has no line that the pattern ^## .+$ matches
NoHeadingLine(t) ==
    LET lines == Split(t, <<NL>>)
    IN \A i \in 1..Len(lines) : ~IsHeaderLine(lines[i])

\* C23: for a text without a '## ' heading line, chunk_document returns what
\* recursive_chunk returns for the whole text with the same chunk_size and
\* chunk_overlap (the same chunks, or the same error).
C23_NoHeaderIsRecursive ==
    (cpc = "done" /\ cfun = "chunk_document" /\ NoHeadingLine(text)) =>
        LET whole == recursive_chunk(text, chunk_size, chunk_overlap)
        IN /\ raised = whole.raised
           /\ final_chunks = whole.chunks

\* how often the character c occurs in the text t
Occurrences(c, t) == Cardinality({i \in 1..Len(t) : t[i] = c})
\* how often c occurs in the chunks cs together
RECURSIVE OccurrencesIn(_, _)
OccurrencesIn(c, cs) ==
    IF cs = <<>> THEN 0 ELSE Occurrences(c, Head(cs)) + OccurrencesIn(c, Tail(cs))

\* C24: recursive_chunk emits every part of the input in exactly one chunk. Without
\* overlap between hard-split slices (chunk_overlap = 0) every character that
\* belongs to no separator occurs in the chunks as often as in the input.
C24_NoTextTwice ==
    (cpc = "done" /\ cfun = "recursive_chunk" /\ chunk_overlap = 0 /\ ~raised) =>
        \A c \in {"a", "#"} : OccurrencesIn(c, final_chunks) = Occurrences(c, text)

\* C25: keys parsed from the frontmatter never replace the pipeline's own chunk
\* fields: the content of the i-th chunk the pipeline returns for a document is the
\* i-th text the chunker returns for the document's cleaned content.
C25_ContentIsChunkText ==
    ppc \in {"done", "stored"} =>
        LET texts == chunk_document(cleaned, DefaultChunkSize, DefaultChunkOverlap).chunks
        IN /\ Len(doc_chunks) = Len(texts)
           /\ \A i \in 1..Len(doc_chunks) :
                 /\ DictHas(doc_chunks[i], KeyContent)
                 /\ DictGet(doc_chunks[i], KeyContent) = StrVal(texts[i])

====
